---- MODULE Spec2Model ----
(***************************************************************************)
(* Conversational order orchestration of pizzaria-sapore-bot.              *)
(*                                                                         *)
(* Two entry points implement the same turn: processTextMessage /          *)
(* processMessageInternally of src/index.js (impl = "bot") and the         *)
(* POST /api/message route of src/api/index.js (impl = "api").  A turn is  *)
(* a chain of steps separated by the awaits at which the Conversa and      *)
(* Pedido collections are written.  Texts are abstracted to the features   *)
(* the code tests: the vocabulary words a user message contains, the       *)
(* blocks of the language model's output, the parts of an address.         *)
(***************************************************************************)
EXTENDS Integers, Sequences, FiniteSets, TLC

VARIABLES
  impl,            \* which entry point this deployment runs: "bot" or "api"
  convs,           \* the Conversa collection, in order of creation (inicio)
  pedidos,         \* the Pedido collection, in order of creation
  tempPedidoData,  \* Map telefone -> most recent staged payload
  turn,            \* per handler invocation: position, in-memory document, inputs
  handled,         \* inbound messages accepted so far
  agora,           \* the clock (new Date()), in hours
  entrega,         \* the client's delivery of one response: sentImages and what was sent
  dataCache,       \* the context cache of getCachedData
  cacheEnv         \* Date.now() in minutes, the store's documents, the last call's outcome

vars == <<impl, convs, pedidos, tempPedidoData, turn, handled, agora,
          entrega, dataCache, cacheEnv>>

----------------------------------------------------------------------------
(* Bounds *)

MaxConvs == 3      \* Conversa rows kept in the model
MaxPedidos == 2    \* Pedido rows kept in the model
MaxUserMsgs == 2   \* user messages counted per conversation (2 = "more than one")
MaxTurns == 3      \* inbound messages handled in a run
MaxHoras == 4      \* hours the clock runs

Workers == {1, 2}
Phones == {"p1", "p2"}

----------------------------------------------------------------------------
(* Addresses: the parts of the text that the code's regexes look at *)

NoAddr == [street |-> "", number |-> "", cep |-> ""]

\* /\d+/ on an address string
HasDigit(a) == a.number # "" \/ a.cep # ""

Truthy(a) == a # NoAddr

RuaSemNumero == [street |-> "Rua Augusta", number |-> "", cep |-> ""]
RuaComNumero == [street |-> "Rua Augusta", number |-> "1234", cep |-> ""]
\* formattedAddress built by detectAndValidateCEP: street, ..., cep
RuaComCep == [street |-> "Rua Augusta", number |-> "", cep |-> "01305-000"]

----------------------------------------------------------------------------
(* Order payloads of a [JSON_FORMAT] block *)

NoState == -1              \* a response without a state field

Item(n, q, p) == [nome |-> n, quantidade |-> q, preco |-> p]

\* arr: Array.isArray(items)
Payload(i, e, p) == [set |-> TRUE, arr |-> TRUE, items |-> i, endereco |-> e, pagamento |-> p]

\* conversa.pedidoData absent; a JSON block without an order
NoPedido == [set |-> FALSE, arr |-> FALSE, items |-> <<>>, endereco |-> NoAddr, pagamento |-> ""]

UmaPizza == <<Item("Amazonas", 1, 40)>>
DuasPizzas == <<Item("Amazonas", 2, 40), Item("Tropicale", 0, 35)>>

PedidoBom == Payload(DuasPizzas, RuaComNumero, "PIX")
PedidoSemNumero == Payload(UmaPizza, RuaSemNumero, "PIX")
PedidoSemItens == Payload(<<>>, RuaComNumero, "PIX")
PedidoSemPagamento == Payload(UmaPizza, RuaComNumero, "")
PedidoIncompleto == Payload(UmaPizza, RuaSemNumero, "")

\* the JSON text of the block: malformed, {"pedido": {...}} or the flat shape
NoJson == [shape |-> "absent", body |-> NoPedido]
BadJson == [shape |-> "malformed", body |-> NoPedido]
Wrapped(p) == [shape |-> "pedido", body |-> p]
Flat(p) == [shape |-> "flat", body |-> p]

JsonBlocks ==
  {NoJson, BadJson, Wrapped(PedidoBom), Flat(PedidoBom), Wrapped(PedidoSemNumero),
   Wrapped(PedidoSemItens), Flat(PedidoSemPagamento), Wrapped(PedidoIncompleto)}

RECURSIVE SumItems(_)
\* valorTotal += parseFloat(item.preco) * (item.quantidade || 1)
SumItems(items) ==
  IF items = <<>> THEN 0
  ELSE LET it == Head(items)
           q == IF it.quantidade = 0 THEN 1 ELSE it.quantidade
       IN it.preco * q + SumItems(Tail(items))

----------------------------------------------------------------------------
(* User messages.  A message is one of the texts below; Words gives the     *)
(* vocabulary words (String.includes on the lower-cased text) and the      *)
(* regex features the code tests on it.                                    *)

Messages ==
  {"oi", "quero pizza", "inteira", "finalizar", "Rua Augusta, 1234", "1234",
   "01305-000", "pix", "cartao", "sim", "confirmo", "reiniciar", "ver cardapio",
   "entregam na Lapa?", "pizza pix 01305-000", "pizza pix 01305-000, 1234"}

Words(m) ==
  CASE m = "oi" -> {}
    [] m = "quero pizza" -> {"pizza", "quero"}
    [] m = "inteira" -> {"inteira"}
    [] m = "finalizar" -> {"finalizar"}
    [] m = "Rua Augusta, 1234" -> {"#number", "#commaNumber", "#address"}
    [] m = "1234" -> {"#digitsOnly", "#number"}
    [] m = "01305-000" -> {"#cep", "#number"}
    [] m = "pix" -> {"pix"}
    [] m = "cartao" -> {"cartao"}
    [] m = "sim" -> {"sim"}
    [] m = "confirmo" -> {"confirmo"}
    [] m = "reiniciar" -> {"#reset"}
    [] m = "ver cardapio" -> {"ver", "cardapio"}
    [] m = "entregam na Lapa?" -> {"entrega", "?", "#location"}
    [] m = "pizza pix 01305-000" -> {"pizza", "pix", "#cep", "#number"}
    [] m = "pizza pix 01305-000, 1234" -> {"pizza", "pix", "#cep", "#number", "#commaNumber"}
    [] m = "cartao de credito" -> {"cartao", "credito"}
    [] m = "entregam na Lapa com cartao?" -> {"entrega", "?", "#location", "cartao"}
    [] OTHER -> {}

Includes(m, ws) == Words(m) \cap ws # {}

\* message.toLowerCase() === 'reiniciar' || 'começar de novo' || 'novo pedido'
isResetRequest(m) == "#reset" \in Words(m)

\* the house number a message carries: /,\s*(\d+)/ or the whole digits-only text
NumberOf(m) ==
  CASE m = "Rua Augusta, 1234" -> "1234"
    [] m = "1234" -> "1234"
    [] m = "pizza pix 01305-000, 1234" -> "1234"
    [] OTHER -> ""

\* /número\s+(\d+)/i, /,\s*(\d+)/ or /n[º°]\s*(\d+)/i on a stored user message
numeroMatch(m) == "#commaNumber" \in Words(m)

----------------------------------------------------------------------------
(* Output of the language model: the blocks it contains *)

\* text, voice, image, json, conf: the TEXT, VOICE, IMAGE, JSON and
\* CONFIRMATION blocks of the output (image: "none", or whether the identifier
\* of the block is on the menu); wrapped: the whole output was put into a
\* TEXT block after the call
BotText(tx, sz, js, cf) ==
  [fail |-> FALSE, text |-> tx, sizeTalk |-> sz, json |-> js, conf |-> cf,
   wrapped |-> FALSE, voice |-> FALSE, image |-> "none", pergunta |-> "nenhuma"]

\* an output that has a VOICE block (v) and an IMAGE block (img) as well; img is
\* "found" or "missing" for the identifier of one item, "meio" for a
\* composite identifier "A+B", "erro" when the lookup of the item throws
ComBlocos(b, v, img) == [b EXCEPT !.voice = v, !.image = img]

\* where the output has a question mark: "noTexto", the body of the TEXT
\* block ends with one and the output ends with [/END]; "noFim", the output
\* itself ends with one, after its last [/END]
ComPergunta(b, q) == [b EXCEPT !.pergunta = q]

\* no call made in this turn
NoBot == [fail |-> FALSE, text |-> FALSE, sizeTalk |-> FALSE, json |-> NoJson, conf |-> FALSE,
          wrapped |-> FALSE, voice |-> FALSE, image |-> "none", pergunta |-> "nenhuma"]
\* the call threw: the catch substitutes the apology TEXT block
BotFailed == [fail |-> TRUE, text |-> TRUE, sizeTalk |-> FALSE, json |-> NoJson, conf |-> FALSE,
              wrapped |-> FALSE, voice |-> FALSE, image |-> "none", pergunta |-> "nenhuma"]

BotOutputs ==
  {BotText(TRUE, sz, NoJson, FALSE) : sz \in BOOLEAN}
  \cup {BotText(FALSE, FALSE, NoJson, FALSE)}
  \cup {BotText(TRUE, FALSE, js, cf) : js \in JsonBlocks, cf \in BOOLEAN}

----------------------------------------------------------------------------
(* Documents *)

NoAddressData == [formattedAddress |-> NoAddr, street |-> ""]

\* a new row that takes over the state of the most recent row in the collection
ConversaHerdada(p) ==
  [telefone |-> p, inicio |-> agora,
   state |-> IF convs = <<>> THEN 0 ELSE convs[Len(convs)].state,
   pedidoData |-> NoPedido, pedidoId |-> 0,
   addressData |-> NoAddressData, nUser |-> 0, numInHist |-> ""]

\* new Conversa({telefone, inicio, duracao: 0, state: 0, mensagens: []})
NewConversa(p) ==
  [telefone |-> p, inicio |-> agora, state |-> 0, pedidoData |-> NoPedido, pedidoId |-> 0,
   addressData |-> NoAddressData, nUser |-> 0, numInHist |-> ""]

\* no document loaded
NoConversa ==
  [telefone |-> "", inicio |-> 0, state |-> 0, pedidoData |-> NoPedido, pedidoId |-> 0,
   addressData |-> NoAddressData, nUser |-> 0, numInHist |-> ""]

NoResp == [success |-> FALSE, text |-> "none", state |-> NoState, image |-> "none", imageCaption |-> "",
           audio |-> FALSE]
Resp(tx, st) == [success |-> TRUE, text |-> tx, state |-> st, image |-> "none", imageCaption |-> "",
                 audio |-> FALSE]

\* a handler invocation: position, inputs (msg, mtype, bot), the in-memory
\* document with its modified paths and pushed user messages, the response;
\* afirmativo and state0 record what the turn was given, made the Pedido it
\* created (0: none), replay that it took the duplicate-confirmation exit,
\* antes the state in which the handler's previous turn found its conversation
IdleTurn ==
  [pc |-> "idle", phone |-> "", msg |-> "", mtype |-> "text", id |-> 0,
   doc |-> NoConversa, dirty |-> {}, pendUser |-> 0,
   bot |-> NoBot, resp |-> NoResp, afirmativo |-> FALSE, state0 |-> 0, made |-> 0,
   replay |-> FALSE, antes |-> 0]

Min(a, b) == IF a < b THEN a ELSE b

\* indexes of the rows of one telefone
RowsOf(p) == {i \in 1..Len(convs) : convs[i].telefone = p}

\* the most recent row of the collection, whatever its telefone
LatestDeTodos(p) == Len(convs)

\* Conversa.findOne({telefone}).sort({inicio: -1}); 0 when there is none
Latest(p) ==
  IF RowsOf(p) = {} THEN 0
  ELSE CHOOSE i \in RowsOf(p) : \A j \in RowsOf(p) : j <= i

\* conversa.save(): writes the modified paths of the in-memory document; pushes
\* to mensagens are applied to the stored array
SaveInto(row, t) ==
  [row EXCEPT
     !.state = IF "state" \in t.dirty THEN t.doc.state ELSE @,
     !.pedidoData = IF "pedidoData" \in t.dirty THEN t.doc.pedidoData ELSE @,
     !.pedidoId = IF "pedidoId" \in t.dirty THEN t.doc.pedidoId ELSE @,
     !.addressData = IF "addressData" \in t.dirty THEN t.doc.addressData ELSE @,
     !.nUser = Min(MaxUserMsgs, @ + t.pendUser),
     !.numInHist = IF t.pendUser > 0 THEN t.doc.numInHist ELSE @]

\* the collection after turn t saved its document
Saved(cs, t) == [cs EXCEPT ![t.id] = SaveInto(@, t)]

\* the turn after a save
Clean(t) == [t EXCEPT !.dirty = {}, !.pendUser = 0]

\* conversa.mensagens.push({tipo: 'user', ...})
PushUser(t) ==
  [t EXCEPT !.doc.nUser = Min(MaxUserMsgs, @ + 1),
            !.doc.numInHist = IF numeroMatch(t.msg) THEN NumberOf(t.msg) ELSE @,
            !.pendUser = Min(MaxUserMsgs, @ + 1)]

\* conversa.mensagens.push({tipo: 'bot', ...}): bot messages are not read back
PushBot(t) == t

\* no response is being delivered
SemEntrega ==
  [cliente |-> "index.js", ids |-> <<>>, menuImageCaption |-> "", pc |-> "fim", k |-> 0,
   sentImages |-> {}, enviadas |-> <<>>]

\* const dataCache = {botConfig: null, ..., lastUpdated: 0}; 0 stands for null
CacheVazio ==
  [botConfig |-> 0, historia |-> 0, formasPagamento |-> 0, cardapioItems |-> 0,
   lastUpdated |-> 0]

\* what getCachedData returns: the four cached values
Retorno(c) ==
  [botConfig |-> c.botConfig, historia |-> c.historia,
   formasPagamento |-> c.formasPagamento, cardapioItems |-> c.cardapioItems]

\* the process starts: the store holds the default documents (version 1), no
\* call of getCachedData was made; Date.now() is far from lastUpdated = 0;
\* leu: the last call read the store; completo: when the last refresh
\* completed (-1: never)
EnvInicial ==
  [now |-> 6, store |-> 1, leu |-> FALSE, retorno |-> Retorno(CacheVazio), chamadas |-> 0,
   completo |-> -1]

Init ==
  /\ entrega = SemEntrega
  /\ dataCache = CacheVazio
  /\ cacheEnv = EnvInicial
  /\ impl \in {"bot", "api"}
  /\ convs = <<>>
  /\ pedidos = <<>>
  /\ tempPedidoData = [p \in Phones |-> NoPedido]
  /\ turn = [w \in Workers |-> IdleTurn]
  /\ handled = 0
  /\ agora = 0

----------------------------------------------------------------------------
(* Start of a turn *)

\* the affirmative words either confirmation test accepts
Afirmativo(m) == Includes(m, {"sim", "confirmo", "correto", "ok", "pode ser"})

\* 3 * 60 * 60 * 1000 ms, in hours
TresHoras == 3

\* a getOrCreateConversation that never looks at the age of the row
createsRowSemIdade(p, m) ==
  \/ isResetRequest(m)
  \/ Latest(p) = 0
  \/ convs[Latest(p)].state = 7

\* does getOrCreateConversation create a row: on a reset, when there is no
\* row, or when the most recent one is finished or started more than 3 hours ago
createsRow(p, m) ==
  \/ isResetRequest(m)
  \/ Latest(p) = 0
  \/ convs[Latest(p)].state = 7
  \/ agora - convs[Latest(p)].inicio > TresHoras

\* getOrCreateConversation (index.js) and the same block of POST /api/message:
\* the most recent row, or a new one on reset, when the last is finished or
\* older than 3 hours, or when there is none; cs is the collection afterwards
getOrCreateConversation(p, m) ==
  LET cs == IF createsRow(p, m) THEN Append(convs, NewConversa(p)) ELSE convs
  IN [cs |-> cs, id |-> IF createsRow(p, m) THEN Len(cs) ELSE Latest(p)]

\* the handler invocation on the conversation found
StartTurn(p, m, mt, g) ==
  [IdleTurn EXCEPT !.pc = "pre", !.phone = p, !.msg = m, !.mtype = mt, !.id = g.id,
                   !.doc = g.cs[g.id], !.afirmativo = Afirmativo(m),
                   !.state0 = g.cs[g.id].state]

----------------------------------------------------------------------------
(* Results of a step *)

\* the handler answers r; its document is dropped
Done(t, r) ==
  [t EXCEPT !.pc = "done", !.resp = r,
            !.doc = NoConversa, !.dirty = {}, !.pendUser = 0]

\* the catch of POST /api/message: res.status(500).json({success: false, ...})
Erro500 == [success |-> FALSE, text |-> "erroProcessar", state |-> NoState, image |-> "none", imageCaption |-> "",
            audio |-> FALSE]

\* processTaggedResponse on a text with TEXT (and IMAGE) blocks only: no JSON and
\* no CONFIRMATION block, so nothing is written
TaggedTextOnly(t, tx) == [success |-> TRUE, text |-> tx, state |-> t.doc.state, image |-> "none", imageCaption |-> "",
                          audio |-> FALSE]

\* detectAndValidateCEP stored on the conversation and saved at once
WithCep(t) ==
  [t EXCEPT !.doc.addressData = [formattedAddress |-> RuaComCep, street |-> "Rua Augusta"],
            !.dirty = @ \cup {"addressData"}]

\* street.replace(street, `${street}, ${number}`) on the formatted address
WithNumber(a, street, n) ==
  IF Truthy(a) THEN [a EXCEPT !.number = IF @ = "" THEN n ELSE @]
  ELSE [street |-> street, number |-> n, cep |-> ""]

\* new Pedido({telefone, itens, valorTotal, endereco, formaPagamento, ...});
\* conv records the conversation whose turn created the row
NovoPedido(t, itens, endereco, pagamento) ==
  [telefone |-> t.doc.telefone, conv |-> t.id, itens |-> itens,
   valorTotal |-> SumItems(itens), endereco |-> endereco, formaPagamento |-> pagamento]

\* rows a turn may still have to create after getOrCreateConversation
Room(n) == Len(convs) + n <= MaxConvs

----------------------------------------------------------------------------
(* The state-4 override of processMessageInternally (index.js only): a      *)
(* digits-only message is the missing house number                          *)

numeroNoEstado4(t) ==
  /\ t.doc.state = 4
  /\ "#digitsOnly" \in Words(t.msg)
  /\ t.doc.addressData.street # ""

\* pedidoData is a Mixed path: the assignment to pedidoData.endereco changes
\* the document in memory and is not written by save()
comNumeroDoEstado4(t) ==
  LET fa == WithNumber(t.doc.addressData.formattedAddress, t.doc.addressData.street,
                       NumberOf(t.msg))
  IN [t EXCEPT !.doc.addressData.formattedAddress = fa,
               !.doc.pedidoData = IF @ = NoPedido THEN @ ELSE [@ EXCEPT !.endereco = fa],
               !.doc.state = 5,
               !.dirty = @ \cup {"addressData", "state"}]

(* The state-5 overrides *)

\* mensagensNoEstado5.length <= 1: every user message of the conversation counts
primeiraNoEstado5(t) == t.doc.state = 5 /\ t.msg # "5" /\ t.doc.nUser <= 1

\* the card test without the unaccented spelling
cartaoSoComAcento(t) ==
  /\ t.doc.state = 5 /\ t.msg # "5" /\ t.doc.nUser > 1
  /\ ~Includes(t.msg, {"credito", "crédito", "debito", "débito"})
  /\ (impl = "bot" => Includes(t.msg, {"cartão"}))

cartaoSemTipo(t) ==
  /\ t.doc.state = 5 /\ t.msg # "5" /\ t.doc.nUser > 1
  /\ ~Includes(t.msg, {"credito", "crédito", "debito", "débito"})
  /\ (impl = "bot" => Includes(t.msg, {"cartão", "cartao"}))

(* The state-6 override: the user finalises the order *)

confirmaNoEstado6(t) == t.doc.state = 6 /\ Includes(t.msg, {"sim", "correto", "ok"})

\* enderecoCompleto: the staged address, or one rebuilt from the address
\* components and a number found in the user messages
enderecoCompleto(t) ==
  LET e == t.doc.pedidoData.endereco
  IN IF t.doc.addressData # NoAddressData /\ ~HasDigit(e) /\ t.doc.numInHist # ""
     THEN [street |-> t.doc.addressData.street, number |-> t.doc.numInHist,
           cep |-> t.doc.addressData.formattedAddress.cep]
     ELSE e

\* detectImageRequest(message) returns identifiers
imageRequest(m) == Includes(m, {"imagem", "foto", "mostra", "ver", "veja"})
                   /\ Includes(m, {"cardapio", "cardápio", "menu"})

----------------------------------------------------------------------------
(* First part of a turn, up to the call of the language model *)

Out(t, cs, ps) == [t |-> t, cs |-> cs, ps |-> ps]

\* save the document and answer
SaveAndAnswer(t, cs, r) == Out(Done(Clean(t), r), Saved(cs, t), pedidos)

\* the finalisation of the order in state 6 (both entry points): the Pedido is
\* saved first, the conversation afterwards
finalizaPedido(t, cs) ==
  IF t.doc.pedidoData = NoPedido
    THEN Out(Done(t, Resp("problemaPedido", 0)), cs, pedidos)
  ELSE IF ~t.doc.pedidoData.arr
    THEN Out(Done(t, Resp("erroFinalizar", 6)), cs, pedidos)
  ELSE Out([t EXCEPT !.pc = "pedidoSalvo", !.made = Len(pedidos) + 1], cs,
           Append(pedidos, NovoPedido(t, t.doc.pedidoData.items, enderecoCompleto(t),
                                      t.doc.pedidoData.pagamento)))

\* the end of the first part, common to both entry points
overrides(t, cs) ==
  IF impl = "bot" /\ numeroNoEstado4(t)
    THEN SaveAndAnswer(comNumeroDoEstado4(t), cs, Resp("enderecoRegistrado", 5))
  ELSE IF primeiraNoEstado5(t)
    THEN IF impl = "bot" THEN SaveAndAnswer(PushBot(t), cs, Resp("opcoesPagamento", NoState))
         ELSE Out(Done(t, Erro500), cs, pedidos)
  ELSE IF cartaoSemTipo(t)
    THEN SaveAndAnswer(PushBot(t), cs,
                       Resp(IF impl = "bot" THEN "especifiqueCartao"
                            ELSE "especifiquePagamento", NoState))
  ELSE IF confirmaNoEstado6(t)
    THEN finalizaPedido(t, cs)
  ELSE IF imageRequest(t.msg)
    THEN SaveAndAnswer(PushBot(t), cs, TaggedTextOnly(t, "cardapio"))
  ELSE Out([t EXCEPT !.pc = "llm"], cs, pedidos)

\* the pizza, payment and CEP heuristic of the unsupported-media branch
pedidoCompleto(m) ==
  /\ Includes(m, {"tropicale", "amazonas", "napolitana", "pizza"})
  /\ Includes(m, {"pix", "débito", "crédito", "dinheiro", "pagar"})
  /\ "#cep" \in Words(m)

PizzaDaMensagem == <<Item("Pizza Tradicional Grande", 1, 90)>>

\* the unsupported-media branch of POST /api/message
midiaNaoSuportada(t0, cs, cep2) ==
  LET t == PushBot([t0 EXCEPT !.doc.nUser = Min(MaxUserMsgs, @ + 1),
                              !.pendUser = Min(MaxUserMsgs, @ + 1)])
      ad == [formattedAddress |-> RuaComCep, street |-> "Rua Augusta"]
      completo == [street |-> "Rua Augusta", number |-> NumberOf(t.msg), cep |-> "01305-000"]
  IN IF pedidoCompleto(t.msg) /\ cep2
     THEN IF ~numeroMatch(t.msg)
          THEN SaveAndAnswer(
                 [t EXCEPT !.doc.state = 4, !.doc.addressData = ad,
                           !.doc.pedidoData = Payload(PizzaDaMensagem, NoAddr, "PIX"),
                           !.dirty = @ \cup {"state", "addressData", "pedidoData"}],
                 cs, Resp("pedidoNumero", 4))
          ELSE SaveAndAnswer(
                 [t EXCEPT !.doc.state = 6,
                           !.doc.addressData = [formattedAddress |-> completo,
                                                street |-> "Rua Augusta"],
                           !.doc.pedidoData = Payload(PizzaDaMensagem, completo, "PIX"),
                           !.dirty = @ \cup {"state", "addressData", "pedidoData"}],
                 cs, Resp("resumoPedido", 6))
     ELSE SaveAndAnswer(t, cs, Resp("midiaNaoSuportada", NoState))

\* isDeliveryQuery with a location found in the text
perguntaDeEntrega(m) ==
  /\ Includes(m, {"entrega"}) /\ Includes(m, {"?", "vocês", "voces"})
  /\ "#location" \in Words(m)

\* POST /api/message of api/index.js from the CEP lookup to the model call
apiInicio(t0, cs, ext) ==
  LET t1 == IF "#cep" \in Words(t0.msg) /\ ext.cep THEN WithCep(t0) ELSE t0
      cs1 == IF t1.dirty # {} THEN Saved(cs, t1) ELSE cs
      t2 == Clean(t1)
      endereco == t2.doc.state = 4 /\ "#address" \in Words(t2.msg)
      valido == [formattedAddress |-> [street |-> "Rua Augusta", number |-> NumberOf(t2.msg),
                                       cep |-> "01305-000"],
                 street |-> "Rua Augusta"]
  IN IF t2.mtype # "text"
       THEN midiaNaoSuportada(t2, cs1, ext.cep2)
     ELSE IF perguntaDeEntrega(t2.msg)
       THEN SaveAndAnswer(PushBot(PushUser(t2)), cs1, Resp("areaDeEntrega", NoState))
     ELSE IF endereco /\ ~ext.addr
       THEN SaveAndAnswer(PushBot(PushUser(t2)), cs1, Resp("enderecoInvalido", NoState))
     ELSE overrides(
            PushUser(IF endereco
                     THEN [t2 EXCEPT !.doc.addressData = valido,
                                     !.dirty = @ \cup {"addressData"}]
                     ELSE t2),
            cs1)

\* processMessageInternally of index.js from the CEP lookup to the model call
botInicio(t0, cs, ext) ==
  LET t1 == IF "#cep" \in Words(t0.msg) /\ ext.cep THEN WithCep(t0) ELSE t0
      cs1 == IF t1.dirty # {} THEN Saved(cs, t1) ELSE cs
  IN overrides(PushUser(Clean(t1)), cs1)

\* the answers of the external services a first part may consult
Externals(t) ==
  {e \in [cep : BOOLEAN, cep2 : BOOLEAN, addr : BOOLEAN] :
     /\ e.cep => "#cep" \in Words(t.msg)
     /\ e.cep2 => impl = "api" /\ t.mtype # "text" /\ pedidoCompleto(t.msg)
     /\ e.addr => impl = "api" /\ t.doc.state = 4 /\ "#address" \in Words(t.msg)}

\* message kinds of an inbound request: text, or a media kind that is neither
\* text nor audio; processMessageInternally of index.js never reads its
\* messageType parameter
MediaKinds == {"text", "image"}

\* the captions a media message arrives with
MediaCaptions == {"oi", "pizza pix 01305-000", "pizza pix 01305-000, 1234"}

\* an inbound message of telefone p that is no reset command: the
\* conversation is found or created, and the first part of the turn runs;
\* Msgs are the texts a specification draws
processMessageInternally(w, p, Msgs) ==
  /\ turn[w].pc = "idle"
  /\ handled < MaxTurns
  /\ handled' = handled + 1
  /\ \E m \in Msgs, mt \in MediaKinds :
       /\ ~isResetRequest(m)
       /\ mt # "text" => m \in MediaCaptions
       /\ LET g == getOrCreateConversation(p, m)
              t0 == StartTurn(p, m, mt, g)
          IN /\ Len(g.cs) <= MaxConvs
             /\ \E ext \in Externals(t0) :
                  LET o == IF impl = "bot" THEN botInicio(t0, g.cs, ext)
                           ELSE apiInicio(t0, g.cs, ext)
                  IN /\ Len(o.ps) <= MaxPedidos
                     /\ turn' = [turn EXCEPT ![w] = [o.t EXCEPT !.antes = turn[w].state0]]
                     /\ convs' = o.cs
                     /\ pedidos' = o.ps
  /\ UNCHANGED <<entrega, dataCache, cacheEnv, impl, agora, tempPedidoData>>

----------------------------------------------------------------------------
(* Finalisation in state 6, after the Pedido was saved *)

\* conversa.pedidoId = pedidoSalvo._id; conversa.state = 7; the confirmation
\* text reads pedidoData.items[0], which throws on an empty list before the
\* conversation is saved
atualizaConversa(w) ==
  /\ turn[w].pc = "pedidoSalvo"
  /\ LET t == [turn[w] EXCEPT !.doc.pedidoId = turn[w].made, !.doc.state = 7,
                              !.dirty = @ \cup {"pedidoId", "state"}]
     IN IF t.doc.pedidoData.items = <<>>
        THEN /\ turn' = [turn EXCEPT ![w] =
                  Done(t, Resp("erroFinalizar", 6))]
             /\ convs' = convs
        ELSE /\ turn' = [turn EXCEPT ![w] = [Clean(PushBot(t)) EXCEPT !.pc = "conversaSalva"]]
             /\ convs' = Saved(convs, PushBot(t))
  /\ UNCHANGED <<entrega, dataCache, cacheEnv, impl, agora, pedidos, tempPedidoData, handled>>

\* novaConversa.save() and the answer built by processTaggedResponse from the
\* confirmation text
novaConversa(w) ==
  /\ turn[w].pc = "conversaSalva"
  /\ Room(1)
  /\ convs' = Append(convs, NewConversa(turn[w].doc.telefone))
  /\ turn' = [turn EXCEPT ![w] = Done(@, TaggedTextOnly(@, "pedidoConfirmado"))]
  /\ UNCHANGED <<entrega, dataCache, cacheEnv, impl, agora, pedidos, tempPedidoData, handled>>

----------------------------------------------------------------------------
(* The call of the language model and the staging that follows it *)

\* the order the JSON block carries for processTaggedResponse and
\* extractPedidoData: jsonData.pedido, or the flat object when it has the
\* three fields; NoPedido otherwise
pedidoDoJson(js) ==
  CASE js.shape = "pedido" -> js.body
    [] js.shape = "flat" ->
         IF js.body.arr /\ Truthy(js.body.endereco) /\ js.body.pagamento # ""
         THEN js.body ELSE NoPedido
    [] OTHER -> NoPedido

\* Array.isArray(pedidoData.items) && pedidoData.endereco && pedidoData.pagamento
camposPresentes(pd) ==
  pd # NoPedido /\ pd.arr /\ Truthy(pd.endereco) /\ pd.pagamento # ""

\* extractPedidoData(text, conversa): the order, or NoPedido (null)
extractPedidoData(b) ==
  LET pd == pedidoDoJson(b.json)
  IN IF camposPresentes(pd) /\ HasDigit(pd.endereco) THEN pd ELSE NoPedido

\* the block after the model call: whatever JSON.parse returns is stored on
\* the conversation and in the map, and the state is set to 6
stagesJson(b) == b.json.shape \in {"pedido", "flat"}

checkIfShouldAdvanceState(b, m, currentState, conversa) ==
  CASE currentState = 0 ->
         Includes(m, {"pizza", "tropicale", "amazonas", "napolitana", "pedido", "quero", "manda"})
    [] currentState = 1 ->
         b.sizeTalk \/ Includes(m, {"inteira", "meio", "metade"})
    [] currentState = 2 ->
         Includes(m, {"finalizar", "mais uma", "outra pizza"})
    [] currentState = 3 ->
         Includes(m, {"sim", "não", "nao", "refrigerante", "guaraná", "guarana", "coca",
                      "sem refrigerante", "sem bebida"})
    [] currentState = 4 ->
         "#number" \in Words(m)
    [] currentState = 5 ->
         Includes(m, {"débito", "debito", "crédito", "credito", "dinheiro", "pix", "vr"})
    [] currentState = 6 ->
         /\ Includes(m, {"sim", "confirmo", "correto", "ok", "pode ser"})
         /\ b.conf
         /\ conversa.pedidoData # NoPedido
         /\ conversa.pedidoData.arr
         /\ Truthy(conversa.pedidoData.endereco)
         /\ conversa.pedidoData.pagamento # ""
    [] OTHER -> FALSE

\* "Atualizar estado baseado na resposta": the state moves one step when the
\* test accepts the message
advanceState(t, b) ==
  IF checkIfShouldAdvanceState(b, t.msg, t.doc.state, t.doc) /\ t.doc.state < 7
  THEN [t EXCEPT !.doc.state = @ + 1, !.dirty = @ \cup {"state"}]
  ELSE t

\* an output that is handed on as it came
semFormatoPadrao(b) == [b EXCEPT !.sizeTalk = FALSE]

\* the text processTaggedResponse is given: an output without a TEXT, VOICE,
\* IMAGE or JSON block closed by [/END] is wrapped into one TEXT block
blocks(b) ==
  [b EXCEPT !.wrapped = ~(b.text \/ b.voice \/ b.image # "none" \/ b.json # NoJson),
            !.sizeTalk = FALSE]

\* /\[TEXT_FORMAT\]([\s\S]*?)\[\/END\]/ matches the text processTaggedResponse is given
textMatch(b) == b.text \/ b.wrapped

\* the second part of a turn: the model call, the staging of its JSON block
\* (saved), the state update and the save before processTaggedResponse; Outs
\* are the outputs a specification draws
callModel(w, Outs) ==
  /\ turn[w].pc = "llm"
  /\ \E b \in Outs :
       LET t0 == turn[w]
           ex == IF b.fail THEN NoPedido ELSE extractPedidoData(b)
           t1 == IF ex # NoPedido
                 THEN [t0 EXCEPT !.doc.pedidoData = ex, !.dirty = @ \cup {"pedidoData"}]
                 ELSE t0
           t2 == IF stagesJson(b)
                 THEN [t1 EXCEPT !.doc.pedidoData = b.json.body, !.doc.state = 6,
                                 !.dirty = @ \cup {"pedidoData", "state"}]
                 ELSE t1
           wrote == ex # NoPedido \/ stagesJson(b)
           cs1 == IF wrote THEN Saved(convs, t2) ELSE convs
           t3 == advanceState(PushBot(IF wrote THEN Clean(t2) ELSE t2), b)
       IN /\ convs' = Saved(cs1, t3)
          /\ tempPedidoData' = IF stagesJson(b)
                               THEN [tempPedidoData EXCEPT ![t0.phone] = b.json.body]
                               ELSE tempPedidoData
          /\ turn' = [turn EXCEPT ![w] =
                [Clean(t3) EXCEPT !.bot = blocks(b), !.msg = "", !.mtype = "text",
                                  !.pc = "tagged"]]
  /\ UNCHANGED <<entrega, dataCache, cacheEnv, impl, agora, pedidos, handled>>

----------------------------------------------------------------------------
(* processTaggedResponse on the output of the model *)

\* what the replay and the missing-number exits of the CONFIRMATION block
\* return: responseObj in index.js, nothing ("return;") in api/index.js
Undefined == [success |-> FALSE, text |-> "undefined", state |-> NoState, image |-> "none", imageCaption |-> "",
              audio |-> FALSE]

saida(r) == IF impl = "bot" THEN r ELSE Undefined

\* responseObj = {success: true, state: conversa.state}; text = botResponse
responseObj(t) == [success |-> TRUE, text |-> "botResponse", state |-> t.doc.state,
                   image |-> "none", imageCaption |-> "", audio |-> FALSE]

\* !responseObj.text: the text is absent or the empty string
semTexto(r) == r.text \in {"", "none"}

\* a VOICE block that is spoken in every state
vozSempreFalada(t, r, audioOk) ==
  IF t.bot.voice THEN [r EXCEPT !.audio = TRUE] ELSE r

\* the VOICE block: in states 6 and 7 no audio is generated and the voice text
\* becomes the reply when the output has no TEXT block; in the other states
\* generateAudio is called, audioOk telling whether it returned a URL
vozDoBloco(t, r, audioOk) ==
  IF ~t.bot.voice THEN r
  ELSE IF t.doc.state \in {6, 7}
    THEN IF textMatch(t.bot) THEN r ELSE [r EXCEPT !.text = "voiceText"]
  ELSE [r EXCEPT !.audio = audioOk]

\* the CardapioItem documents of the two halves of "A+B" and what
\* overlayImages does: "ok" returns the merged image, "falha" catches its own
\* error and returns the base image, "throws" fails on require('canvas')
Meios ==
  [s1 : BOOLEAN, s2 : BOOLEAN, esq : BOOLEAN, dir : BOOLEAN, geral1 : BOOLEAN,
   geral2 : BOOLEAN, overlay : {"ok", "falha", "throws"}]

\* an output without a composite identifier
SemMeio == [s1 |-> FALSE, s2 |-> FALSE, esq |-> FALSE, dir |-> FALSE, geral1 |-> FALSE,
            geral2 |-> FALSE, overlay |-> "ok"]

\* imageUrl and imageCaption of the identifier "A+B"
meioAMeio(a) ==
  IF ~(a.s1 /\ a.s2) THEN [url |-> "none", caption |-> ""]
  ELSE IF a.dir /\ a.esq
    THEN CASE a.overlay = "ok" -> [url |-> "sobreposicao", caption |-> "Pizza meio A e meio B"]
           [] a.overlay = "falha" -> [url |-> "imagemDireita", caption |-> "Pizza meio A e meio B"]
           [] OTHER -> [url |-> "imagemEsquerda",
                        caption |-> "Pizza meio A e meio B (visualização parcial)"]
  ELSE IF a.geral1 /\ a.geral2
    THEN [url |-> "imagemGeral", caption |-> "Pizza meio A e meio B (visualização aproximada)"]
  ELSE [url |-> IF a.geral1 THEN "imagemGeral" ELSE IF a.esq THEN "imagemEsquerda"
                ELSE IF a.geral2 THEN "imagemGeral" ELSE IF a.dir THEN "imagemDireita"
                ELSE "none",
        caption |-> "Pizza meio A e meio B"]

\* /\?$/.test(responseObj.text.trim()) on the output as it came, tags included
hasQuestion(b) == b.pergunta = "noFim"

\* the first IMAGE block: the image of the menu item or of the two halves;
\* without a TEXT block the text becomes a caption with a question, with one
\* and in states 0 to 3 a question is appended to the output unless it ends
\* with a question mark; for an identifier that resolves to no image, and for
\* a lookup that throws, an apology when the response has no text yet
imagemDoBloco(t, r, a) ==
  LET img == IF t.bot.image = "found" THEN [url |-> "imagemGeral", caption |-> "nome: descricao"]
             ELSE IF t.bot.image = "meio" THEN meioAMeio(a)
             ELSE [url |-> "none", caption |-> ""]
  IN IF t.bot.image = "none" THEN r
     ELSE IF t.bot.image = "erro"
       THEN IF semTexto(r) THEN [r EXCEPT !.text = "erroNaImagem"] ELSE r
     ELSE IF img.url # "none"
       THEN [r EXCEPT !.image = img.url, !.imageCaption = img.caption,
                      !.text = IF ~textMatch(t.bot) \/ semTexto(r) THEN "legendaComPergunta"
                               ELSE IF t.doc.state \in 0..3 /\ ~hasQuestion(t.bot)
                                 THEN "botResponse pergunta"
                               ELSE @]
     ELSE IF semTexto(r) THEN [r EXCEPT !.text = "imagemNaoEncontrada"] ELSE r

\* the end of processTaggedResponse: a response without text, image and audio
\* gets the output itself when it had no tag, the apology otherwise
respostaFinal(r, b) ==
  IF semTexto(r) /\ r.image = "none" /\ ~r.audio
  THEN [r EXCEPT !.text = IF b.text \/ b.wrapped \/ b.voice \/ b.image # "none"
                                \/ b.json # NoJson
                             THEN "erroProcessar" ELSE "botResponse"]
  ELSE r

\* BotConfig as configured, and as getCachedData hands it to the turn:
\* .select('nome descricao personalidade systemPrompt welcomeMessage')
BotConfig == [welcomeMessage |-> "welcome", confirmationImage |-> "confirmacao.png"]
cachedBotConfig == [welcomeMessage |-> BotConfig.welcomeMessage, confirmationImage |-> ""]

\* if (botConfig && botConfig.confirmationImage) responseObj.image = ...
comImagem(r) ==
  IF cachedBotConfig.confirmationImage # ""
  THEN [r EXCEPT !.image = cachedBotConfig.confirmationImage] ELSE r

\* the address of the staged order, replaced by the validated address when it
\* has no digit and the validated one has
enderecoDaConfirmacao(doc) ==
  IF HasDigit(doc.pedidoData.endereco) THEN doc.pedidoData.endereco
  ELSE doc.addressData.formattedAddress

\* savedPedidoData.items.map(item => ({nome, quantidade: item.quantidade || 1,
\* preco: parseFloat(item.preco)}))
itensDoPedido(items) ==
  [i \in DOMAIN items |->
     [items[i] EXCEPT !.quantidade = IF @ = 0 THEN 1 ELSE @]]

\* the CONFIRMATION block up to novoPedido.save(); the address recovered into
\* savedPedidoData.endereco (a Mixed path) stays in memory
confirmationBlock(t0, cs) ==
  IF ~t0.bot.conf
    THEN Out(Done(t0, respostaFinal(t0.resp, t0.bot)), cs, pedidos)
  ELSE IF t0.doc.pedidoId # 0
    THEN Out(Done([t0 EXCEPT !.replay = TRUE],
                  saida(comImagem([t0.resp EXCEPT !.text = "confirmationText"]))),
             cs, pedidos)
  ELSE IF t0.doc.pedidoData = NoPedido
    THEN Out(Done(t0, [t0.resp EXCEPT !.text = "pedidoNaoEncontrado"]), cs, pedidos)
  ELSE IF ~HasDigit(enderecoDaConfirmacao(t0.doc))
    THEN LET t1 == [t0 EXCEPT !.doc.state = 4, !.dirty = @ \cup {"state"}]
         IN Out(Done(t1, saida([t0.resp EXCEPT !.text = "enderecoCompletoComNumero"])),
                Saved(cs, t1), pedidos)
  ELSE IF ~t0.doc.pedidoData.arr
    THEN Out(Done(t0, [t0.resp EXCEPT !.text = "problemaAoConfirmar"]), cs, pedidos)
  ELSE LET t1 == [t0 EXCEPT !.doc.pedidoData.endereco = enderecoDaConfirmacao(t0.doc)]
       IN Out([t1 EXCEPT !.pc = "pedidoCriado", !.made = Len(pedidos) + 1], cs,
              Append(pedidos, NovoPedido(t1, itensDoPedido(t1.doc.pedidoData.items),
                                         t1.doc.pedidoData.endereco,
                                         t1.doc.pedidoData.pagamento)))

\* the JSON block: an order without a street number sends the conversation to
\* state 4 and ends the call; a complete one is stored on the conversation,
\* state 6 at least; the CONFIRMATION block follows
processTaggedResponse(w) ==
  /\ turn[w].pc = "tagged"
  /\ \E audioOk \in IF turn[w].bot.voice /\ turn[w].doc.state \notin {6, 7}
                    THEN BOOLEAN ELSE {FALSE},
        a \in IF turn[w].bot.image = "meio" THEN Meios ELSE {SemMeio} :
     LET t0 == [turn[w] EXCEPT
                  !.resp = imagemDoBloco(turn[w],
                             vozDoBloco(turn[w], responseObj(turn[w]), audioOk), a)]
         pd == pedidoDoJson(t0.bot.json)
         t1 == [t0 EXCEPT !.doc.pedidoData = pd,
                          !.doc.state = IF @ < 6 THEN 6 ELSE @,
                          !.dirty = @ \cup {"pedidoData", "state"},
                          !.resp.text = IF pd.items = <<>> THEN "problemaAoRegistrar"
                                        ELSE "resumoPedido"]
         t4 == [t0 EXCEPT !.doc.state = 4, !.dirty = @ \cup {"state"}]
         o == IF ~camposPresentes(pd) THEN confirmationBlock(t0, convs)
              ELSE IF ~HasDigit(pd.endereco)
                THEN Out(Done(t4, Resp("precisoDoNumero", 4)), Saved(convs, t4), pedidos)
              ELSE confirmationBlock(Clean(t1), Saved(convs, t1))
     IN /\ Len(o.ps) <= MaxPedidos
        /\ turn' = [turn EXCEPT ![w] = o.t]
        /\ convs' = o.cs
        /\ pedidos' = o.ps
        /\ tempPedidoData' = IF camposPresentes(pd)
                             THEN [tempPedidoData EXCEPT ![t0.doc.telefone] = pd]
                             ELSE tempPedidoData
  /\ UNCHANGED <<entrega, dataCache, cacheEnv, impl, agora, handled>>

\* conversa.pedidoId = pedidoSalvo._id; conversa.state = 7; conversa.save()
confirmaConversa(w) ==
  /\ turn[w].pc = "pedidoCriado"
  /\ LET t1 == [turn[w] EXCEPT !.doc.pedidoId = turn[w].made, !.doc.state = 7,
                               !.dirty = @ \cup {"pedidoId", "state"}]
     IN /\ convs' = Saved(convs, t1)
        /\ turn' = [turn EXCEPT ![w] =
                      Done(Clean(t1), comImagem([t1.resp EXCEPT !.text = "confirmationText"]))]
  /\ UNCHANGED <<entrega, dataCache, cacheEnv, impl, agora, pedidos, tempPedidoData, handled>>

----------------------------------------------------------------------------
(* Reset *)

\* the reset command: getOrCreateConversation creates a conversation, then
\* handleResetRequest of index.js creates one more and answers with the
\* welcome message; POST /api/message of api/index.js answers on the one
\* conversation it created
handleResetRequest(w, p) ==
  /\ turn[w].pc = "idle"
  /\ handled < MaxTurns
  /\ handled' = handled + 1
  /\ \E m \in {x \in Messages : isResetRequest(x)} :
       LET g == getOrCreateConversation(p, m)
           cs == IF impl = "bot" THEN Append(g.cs, NewConversa(p)) ELSE g.cs
           t0 == StartTurn(p, m, "text", [cs |-> cs, id |-> Len(cs)])
           t1 == PushBot(PushUser(t0))
       IN /\ Len(cs) <= MaxConvs
          /\ convs' = Saved(cs, t1)
          /\ turn' = [turn EXCEPT ![w] =
                Done(t1, IF impl = "bot" THEN TaggedTextOnly(t1, "welcome")
                         ELSE Resp("welcome", 0))]
  /\ UNCHANGED <<entrega, dataCache, cacheEnv, impl, agora, pedidos, tempPedidoData>>

\* the answer is delivered and the handler returns; state0 keeps the state in
\* which the turn that ended had found its conversation
finish(w) ==
  /\ turn[w].pc = "done"
  /\ turn' = [turn EXCEPT ![w] = [IdleTurn EXCEPT !.state0 = turn[w].state0]]
  /\ UNCHANGED <<entrega, dataCache, cacheEnv, impl, agora, convs, pedidos, tempPedidoData, handled>>

----------------------------------------------------------------------------
(* Specifications *)

step(w, Outs) ==
  \/ atualizaConversa(w)
  \/ novaConversa(w)
  \/ callModel(w, Outs)
  \/ processTaggedResponse(w)
  \/ confirmaConversa(w)
  \/ finish(w)

\* one turn at a time, one customer
NextSeq ==
  \/ processMessageInternally(1, "p1", Messages)
  \/ handleResetRequest(1, "p1")
  \/ step(1, BotOutputs \cup {BotFailed})

Spec == Init /\ [][NextSeq]_vars

\* concurrent turns of one customer: neither client.on('message') nor the
\* HTTP route serialises the messages of one telefone
ConcMsgs == {"quero pizza", "confirmo"}

ConcOuts ==
  {BotText(TRUE, FALSE, NoJson, FALSE), BotText(TRUE, FALSE, NoJson, TRUE),
   BotText(TRUE, FALSE, Wrapped(PedidoBom), TRUE)}

NextConc ==
  \E w \in Workers :
    \/ processMessageInternally(w, "p1", ConcMsgs)
    \/ callModel(w, ConcOuts)
    \/ processTaggedResponse(w)
    \/ confirmaConversa(w)
    \/ finish(w)

SpecConc == Init /\ [][NextConc]_vars

\* two customers at the same time, one handler each
TelefoneDe(w) == IF w = 1 THEN "p1" ELSE "p2"

DoisMsgs == {"oi", "sim"}

DoisOuts ==
  {BotText(TRUE, FALSE, NoJson, FALSE), BotText(TRUE, FALSE, Wrapped(PedidoBom), FALSE),
   BotText(TRUE, FALSE, Wrapped(PedidoBom), TRUE)}

NextDois ==
  \E w \in Workers :
    \/ processMessageInternally(w, TelefoneDe(w), DoisMsgs)
    \/ handleResetRequest(w, TelefoneDe(w))
    \/ step(w, DoisOuts)

SpecDois == Init /\ [][NextDois]_vars

\* the payment step: a conversation that waits in state 4 for the house number
\* of the street a CEP lookup resolved, its order staged without the number
EmEstado4 ==
  [NoConversa EXCEPT
     !.telefone = "p1", !.state = 4, !.pedidoData = PedidoSemNumero, !.nUser = 1,
     !.addressData = [formattedAddress |-> RuaComCep, street |-> "Rua Augusta"]]

InitPagamento ==
  /\ entrega = SemEntrega
  /\ dataCache = CacheVazio
  /\ cacheEnv = EnvInicial
  /\ impl \in {"bot", "api"}
  /\ convs = <<EmEstado4>>
  /\ pedidos = <<>>
  /\ tempPedidoData = [p \in Phones |-> IF p = "p1" THEN PedidoSemNumero ELSE NoPedido]
  /\ turn = [w \in Workers |-> IdleTurn]
  /\ handled = 0
  /\ agora = 0

PagamentoMsgs ==
  {"oi", "1234", "pix", "cartao", "cartao de credito", "entregam na Lapa com cartao?"}

PagamentoOuts == {BotText(TRUE, FALSE, NoJson, FALSE)}

NextPagamento ==
  \/ processMessageInternally(1, "p1", PagamentoMsgs)
  \/ callModel(1, PagamentoOuts)
  \/ processTaggedResponse(1)
  \/ finish(1)

SpecPagamento == InitPagamento /\ [][NextPagamento]_vars

\* the clock: an hour passes, at any point of a turn or between turns
passaUmaHora ==
  /\ agora < MaxHoras
  /\ agora' = agora + 1
  /\ UNCHANGED <<entrega, dataCache, cacheEnv, impl, convs, pedidos, tempPedidoData, turn, handled>>

\* one customer whose messages arrive hours apart
RelogioMsgs == {"oi", "sim"}

RelogioOuts == DoisOuts

NextRelogio ==
  \/ processMessageInternally(1, "p1", RelogioMsgs)
  \/ handleResetRequest(1, "p1")
  \/ step(1, RelogioOuts)
  \/ passaUmaHora

SpecRelogio == Init /\ [][NextRelogio]_vars

\* outputs with every combination of blocks, for one customer
BlocosMsgs == {"oi", "sim"}

BlocosOuts ==
  UNION {{ComPergunta(ComBlocos(BotText(tx, FALSE, js, cf), v, img), q) :
            js \in {NoJson, Wrapped(PedidoBom)}, cf \in BOOLEAN,
            v \in BOOLEAN, img \in {"none", "found", "missing", "meio", "erro"},
            q \in IF tx THEN {"nenhuma", "noTexto", "noFim"} ELSE {"nenhuma", "noFim"}} :
         tx \in BOOLEAN}

NextBlocos ==
  \/ processMessageInternally(1, "p1", BlocosMsgs)
  \/ step(1, BlocosOuts)

SpecBlocos == Init /\ [][NextBlocos]_vars

\* both entry points connect to the database of MONGODB_URI: the next message
\* of the customer may arrive at the other one
outraEntrada ==
  /\ turn[1].pc = "idle"
  /\ impl' = IF impl = "bot" THEN "api" ELSE "bot"
  /\ UNCHANGED <<entrega, dataCache, cacheEnv, convs, pedidos, tempPedidoData, turn, handled, agora>>

NextEquiv ==
  \/ NextPagamento
  \/ outraEntrada

SpecEquiv == InitPagamento /\ [][NextEquiv]_vars

----------------------------------------------------------------------------
(* The context cache *)

MaxMinutos == 14
MaxVersoes == 2
MaxChamadas == 3

\* 300000 ms
CincoMinutos == 5

\* a refresh that is due one minute early
precisaCarregarCedo(c, now) ==
  \/ c.botConfig = 0 \/ c.historia = 0 \/ c.formasPagamento = 0 \/ c.cardapioItems = 0
  \/ now - c.lastUpdated >= CincoMinutos

\* !dataCache.botConfig || !dataCache.historia || !dataCache.formasPagamento ||
\* !dataCache.cardapioItems || now - dataCache.lastUpdated > 300000
precisaCarregar(c, now) ==
  \/ c.botConfig = 0 \/ c.historia = 0 \/ c.formasPagamento = 0 \/ c.cardapioItems = 0
  \/ now - c.lastUpdated > CincoMinutos

\* the four reads in order; the k-th one throws (5: none does), the fields
\* read before it are already assigned and lastUpdated is not
carrega(c, store, now, k) ==
  [botConfig |-> IF k > 1 THEN store ELSE c.botConfig,
   historia |-> IF k > 2 THEN store ELSE c.historia,
   formasPagamento |-> IF k > 3 THEN store ELSE c.formasPagamento,
   cardapioItems |-> IF k > 4 THEN store ELSE c.cardapioItems,
   lastUpdated |-> IF k > 4 THEN now ELSE c.lastUpdated]

\* the catch: {botConfig: null, historia: null, formasPagamento: [],
\* cardapioItems: []}; -1 stands for the empty list
RetornoDoErro == [botConfig |-> 0, historia |-> 0, formasPagamento |-> -1, cardapioItems |-> -1]

\* one call; the reads of a refresh end within the minute in which the call
\* took Date.now()
getCachedData ==
  /\ cacheEnv.chamadas < MaxChamadas
  /\ IF precisaCarregar(dataCache, cacheEnv.now)
     THEN \E k \in 1..5 :
            /\ dataCache' = carrega(dataCache, cacheEnv.store, cacheEnv.now, k)
            /\ cacheEnv' = [cacheEnv EXCEPT
                              !.leu = TRUE, !.chamadas = @ + 1,
                              !.retorno = IF k = 5 THEN Retorno(dataCache') ELSE RetornoDoErro,
                              !.completo = IF k = 5 THEN cacheEnv.now ELSE @]
     ELSE /\ dataCache' = dataCache
          /\ cacheEnv' = [cacheEnv EXCEPT !.leu = FALSE, !.chamadas = @ + 1,
                                          !.retorno = Retorno(dataCache)]
  /\ UNCHANGED <<impl, convs, pedidos, tempPedidoData, turn, handled, agora, entrega>>

\* Date.now() a minute later
passaUmMinuto ==
  /\ cacheEnv.now < MaxMinutos
  /\ cacheEnv' = [cacheEnv EXCEPT !.now = @ + 1]
  /\ UNCHANGED <<impl, convs, pedidos, tempPedidoData, turn, handled, agora, entrega,
                 dataCache>>

\* PUT /api/bot-config and the other administration routes change the
\* documents of the store
atualizaLoja ==
  /\ cacheEnv.store < MaxVersoes
  /\ cacheEnv' = [cacheEnv EXCEPT !.store = @ + 1]
  /\ UNCHANGED <<impl, convs, pedidos, tempPedidoData, turn, handled, agora, entrega,
                 dataCache>>

NextCache ==
  \/ getCachedData
  \/ passaUmMinuto
  \/ atualizaLoja

SpecCache == Init /\ [][NextCache]_vars

----------------------------------------------------------------------------
(* Delivery of the images of one response by the WhatsApp client *)

MaxImagens == 2

\* identifiers of the IMAGE blocks of an output: the menu and two menu items
ImageIds == {"cardapio", "amazonas", "tropicale"}

\* the IMAGE blocks of one output, in order
Imagens == UNION {[1..n -> ImageIds] : n \in 1..MaxImagens}

\* botConfig.menuImage for the menu, item.imagemGeral for a menu item
urlDe(id) == IF id = "cardapio" THEN "menuImage" ELSE id

\* imageCaption of the first image, lower-cased: menuImageCaption or
\* 'Cardápio' for the menu, `*${item.nome}*: ${item.descricao}` for an item
imageCaption(e) ==
  IF e.ids[1] = "cardapio"
  THEN IF e.menuImageCaption = "" THEN "cardápio" ELSE e.menuImageCaption
  ELSE e.ids[1]

\* responseObj.allImages: the first image, then every further identifier that
\* CardapioItem.findOne resolves (the menu is no CardapioItem)
allImages(e) ==
  SelectSeq([i \in 1..Len(e.ids) |-> [id |-> e.ids[i], url |-> urlDe(e.ids[i]), first |-> i = 1]],
            LAMBDA x : x.first \/ x.id # "cardapio")

\* caption.includes(imgRef.id) || imgRef.id.includes(caption): the configured
\* caption "cardapio da casa" names the menu, the default 'Cardápio' does
\* not match the identifier 'cardapio'; an item's caption starts with its name
legendaContem(caption, id) ==
  \/ caption = "cardapio da casa" /\ id = "cardapio"
  \/ caption = id /\ id # "cardapio"

Envia(e, key, asset) ==
  [e EXCEPT !.sentImages = @ \cup {key}, !.enviadas = Append(@, asset)]

\* the primary image: if (response.image && !sentImages.has(response.image))
enviaPrincipal ==
  /\ entrega.pc = "principal"
  /\ LET url == urlDe(entrega.ids[1])
         e == IF url \in entrega.sentImages THEN entrega ELSE Envia(entrega, url, url)
     IN entrega' = [e EXCEPT !.pc = "allImages", !.k = 1]
  /\ UNCHANGED <<impl, convs, pedidos, tempPedidoData, turn, handled, agora,
                 dataCache, cacheEnv>>

\* one round of the loop over response.allImages, keyed by imgData.url
enviaAllImages ==
  /\ entrega.pc = "allImages"
  /\ LET todas == allImages(entrega)
     IN IF entrega.k > Len(todas)
        THEN entrega' = [entrega EXCEPT
                           !.pc = IF entrega.cliente = "whatsapp-bot.js"
                                  THEN "imageReferences" ELSE "finally",
                           !.k = 1]
        ELSE LET url == todas[entrega.k].url
                 e == IF url \in entrega.sentImages THEN entrega ELSE Envia(entrega, url, url)
             IN entrega' = [e EXCEPT !.k = @ + 1]
  /\ UNCHANGED <<impl, convs, pedidos, tempPedidoData, turn, handled, agora,
                 dataCache, cacheEnv>>

\* one round of the loop of whatsapp-bot.js over the IMAGE blocks found in
\* response.text, keyed by imgRef.id: the first is skipped when the caption of
\* the primary image names it; the menu image is fetched from /bot-config and
\* sent; for any other identifier the read of the undeclared `item` throws
\* and the catch logs it
enviaImageReferences ==
  /\ entrega.pc = "imageReferences"
  /\ IF entrega.k > Len(entrega.ids)
     THEN entrega' = [entrega EXCEPT !.pc = "finally"]
     ELSE LET id == entrega.ids[entrega.k]
              pula == entrega.k = 1 /\ legendaContem(imageCaption(entrega), id)
              e == IF ~pula /\ id \notin entrega.sentImages /\ id = "cardapio"
                   THEN Envia(entrega, id, urlDe(id)) ELSE entrega
          IN entrega' = [e EXCEPT !.k = @ + 1]
  /\ UNCHANGED <<impl, convs, pedidos, tempPedidoData, turn, handled, agora,
                 dataCache, cacheEnv>>

\* finally { sentImages.clear() }
limpaSentImages ==
  /\ entrega.pc = "finally"
  /\ entrega' = [entrega EXCEPT !.pc = "fim", !.sentImages = {}]
  /\ UNCHANGED <<impl, convs, pedidos, tempPedidoData, turn, handled, agora,
                 dataCache, cacheEnv>>

\* a response with IMAGE blocks has arrived at one of the two clients:
\* processTextMessage of index.js or of bot/whatsapp-bot.js
InitEntrega ==
  /\ \E c \in {"index.js", "whatsapp-bot.js"}, ids \in Imagens,
        cap \in {"", "cardapio da casa"} :
       entrega = [SemEntrega EXCEPT !.cliente = c, !.ids = ids, !.menuImageCaption = cap,
                                    !.pc = "principal"]
  /\ dataCache = CacheVazio
  /\ cacheEnv = EnvInicial
  /\ impl \in {"bot", "api"}
  /\ entrega.cliente = "index.js" => impl = "bot"
  /\ convs = <<>>
  /\ pedidos = <<>>
  /\ tempPedidoData = [p \in Phones |-> NoPedido]
  /\ turn = [w \in Workers |-> IdleTurn]
  /\ handled = 0
  /\ agora = 0

NextEntrega ==
  \/ enviaPrincipal
  \/ enviaAllImages
  \/ enviaImageReferences
  \/ limpaSentImages

SpecEntrega == InitEntrega /\ [][NextEntrega]_vars

----------------------------------------------------------------------------
(* Properties *)

Rows == 1..Len(convs)

\* the Pedido rows created by turns of conversation i
PedidosDe(i) == {k \in 1..Len(pedidos) : pedidos[k].conv = i}

\* C1: for any sequence of turns on one conversation, at most one Pedido is
\* ever persisted for that conversation
C1_UmPedidoPorConversa ==
  \A i \in Rows : Cardinality(PedidosDe(i)) <= 1

\* C2: no Pedido is persisted in a turn unless the output of the language
\* model for that turn contains a CONFIRMATION block
C2_SoComConfirmation ==
  \A w \in Workers : turn[w].made # 0 => turn[w].bot.conf

\* C3: no Pedido is persisted in a turn whose user text is not an affirmative
\* reply
C3_SoComAfirmativo ==
  \A w \in Workers : turn[w].made # 0 => turn[w].afirmativo

\* C4: every persisted Pedido has a non-empty items list, a payment method and
\* an address that contains a digit
C4_PedidoValido ==
  \A k \in 1..Len(pedidos) :
    /\ pedidos[k].itens # <<>>
    /\ pedidos[k].formaPagamento # ""
    /\ HasDigit(pedidos[k].endereco)

\* C5: a CONFIRMATION block processed for a conversation that already has a
\* pedidoId is answered with a success response that carries the confirmation
\* text and the configured confirmation image
C5_ReplayResponde ==
  \A w \in Workers :
    turn[w].pc = "done" /\ turn[w].replay =>
      /\ turn[w].resp.success
      /\ turn[w].resp.text = "confirmationText"
      /\ turn[w].resp.image = BotConfig.confirmationImage

\* C6: a persisted conversation in state 7 has a Pedido committed for it and
\* its pedidoId set
C6_Estado7TemPedido ==
  \A i \in Rows :
    convs[i].state = 7 => convs[i].pedidoId # 0 /\ PedidosDe(i) # {}

\* C7: once the state of a conversation is 7 no step changes it
C7_Estado7Imutavel ==
  [][\A i \in Rows : convs[i].state = 7 => convs'[i].state = 7]_vars

\* C8: the state of a conversation never decreases, and a reset command
\* answers on a freshly created conversation in state 0
C8_Monotonico ==
  [][/\ \A i \in Rows : convs'[i].state >= convs[i].state
     /\ \A w \in Workers :
          turn'[w].pc = "done" /\ turn'[w].resp.text = "welcome" =>
            /\ turn'[w].id > Len(convs)
            /\ convs'[turn'[w].id].state = 0]_vars

\* C9: staging a valid order with a digit-bearing address leaves the state at
\* 6 or below, and the state of a conversation goes past 6 only in a turn whose
\* model output contains a CONFIRMATION block
C9_Passa6SoComConfirmation ==
  [][\A i \in Rows :
       convs[i].state <= 6 /\ convs'[i].state > 6 =>
         \E w \in Workers : turn'[w].id = i /\ turn'[w].bot.conf]_vars

\* C10: when the address of a JSON order block has no digit, the conversation
\* is in state 4, the reply asks for the house number, and neither pedidoData
\* nor the map entry of the telefone holds that order
C10_SemNumeroNaoEncena ==
  \A w \in Workers :
    LET t == turn[w]
        pd == pedidoDoJson(t.bot.json)
    IN t.pc = "done" /\ camposPresentes(pd) /\ ~HasDigit(pd.endereco) =>
         /\ convs[t.id].state = 4
         /\ t.resp.text = "precisoDoNumero"
         /\ convs[t.id].pedidoData # pd
         /\ tempPedidoData[t.phone] # pd

\* C11: in state 6, when the model output has a CONFIRMATION block and the
\* address of the staged order has no digit, the turn ends with the
\* conversation in state 4, a request for the missing number and no Pedido
C11_ConfirmacaoSemNumero ==
  \A w \in Workers :
    LET t == turn[w]
    IN /\ t.pc = "done" /\ t.state0 = 6 /\ t.bot.conf /\ t.bot.json = NoJson
       /\ convs[t.id].pedidoData # NoPedido
       /\ ~HasDigit(convs[t.id].pedidoData.endereco)
       => /\ convs[t.id].state = 4
          /\ t.resp.text = "enderecoCompletoComNumero"
          /\ t.made = 0

\* C12: after a Pedido is committed for a telefone, an inbound message is never
\* processed on the conversation the Pedido was committed for: the turn runs
\* on a conversation without a Pedido, and a conversation that received no
\* message yet starts at state 0
C12_ProximaEmNovaConversa ==
  [][\A w \in Workers :
       turn[w].pc = "idle" /\ turn'[w].pc # "idle" =>
         /\ PedidosDe(turn'[w].id) = {}
         /\ (turn'[w].id > Len(convs) \/ convs[turn'[w].id].nUser = 0
               => turn'[w].state0 = 0)]_vars

\* C13: a message of the reset vocabulary is answered on a brand-new
\* conversation of the telefone, in state 0 and holding only that message,
\* whatever the state of the conversation before it
C13_ReiniciarCriaConversa ==
  \A w \in Workers :
    LET t == turn[w]
    IN t.pc = "done" /\ t.resp.text = "welcome" =>
         /\ t.id = Latest(t.phone)
         /\ convs[t.id].state = 0
         /\ convs[t.id].nUser = 1
         /\ convs[t.id].pedidoData = NoPedido /\ convs[t.id].pedidoId = 0
         /\ t.resp.success

\* a reset answered while the conversation before it was finished (state 7)
C13_Witness ==
  \E w \in Workers :
    /\ turn[w].pc = "done" /\ turn[w].resp.text = "welcome"
    /\ \E i \in Rows : i < turn[w].id /\ convs[i].state = 7

\* C14: in state 4, with a street name resolved before, a message that
\* consists only of digits is not passed to the language model: the turn
\* answers with the canned reply that carries "<street>, <number>" and the
\* payment options, and leaves the conversation in state 5
C14_NumeroNoEstado4 ==
  [][\A w \in Workers :
       LET t == turn'[w]
       IN /\ turn[w].pc = "idle" /\ t.pc # "idle"
          /\ t.state0 = 4 /\ t.id <= Len(convs)
          /\ convs[t.id].addressData.street # ""
          => /\ t.pc = "llm" => "#digitsOnly" \notin Words(t.msg)
             /\ t.resp.text = "enderecoRegistrado" =>
                  /\ t.pc = "done" /\ t.bot = NoBot /\ t.resp.state = 5
                  /\ convs'[t.id].state = 5
                  /\ convs'[t.id].addressData.formattedAddress.street
                       = convs[t.id].addressData.street
                  /\ convs'[t.id].addressData.formattedAddress.number # ""]_vars

\* C15: the first user message a conversation receives in state 5 (the turn
\* before it found the conversation in another state) is answered with the
\* canned payment-options prompt, and the language model is not called for it
C15_PrimeiraNoEstado5 ==
  [][\A w \in Workers :
       LET t == turn'[w]
       IN /\ turn[w].pc = "idle" /\ t.pc # "idle"
          /\ t.state0 = 5 /\ turn[w].state0 # 5
          => /\ t.pc = "done"
             /\ t.bot = NoBot
             /\ t.resp.success
             /\ t.resp.text = "opcoesPagamento"]_vars

\* the conversation SpecPagamento starts from, as Spec reaches it
EmEstado4Alcancado ==
  /\ convs = <<EmEstado4>> /\ pedidos = <<>>
  /\ tempPedidoData = [p \in Phones |-> IF p = "p1" THEN PedidoSemNumero ELSE NoPedido]
  /\ turn = [w \in Workers |-> IdleTurn]

cartaoSemCreditoDebito(m) ==
  /\ Includes(m, {"cartão", "cartao"})
  /\ ~Includes(m, {"credito", "crédito", "debito", "débito"})

\* a turn that found its conversation in state 5, as the turn before it did
DepoisDaPrimeiraNoEstado5(t) ==
  t.pc # "idle" /\ t.state0 = 5 /\ t.antes = 5

respondeComEsclarecimento(t) ==
  /\ t.pc = "done" /\ t.bot = NoBot
  /\ t.resp.success
  /\ t.resp.text \in {"especifiqueCartao", "especifiquePagamento"}
  /\ convs[t.id].state = 5

C17_FalhaNaoMudaEstado ==
  \A w \in Workers :
    LET t == turn[w]
    IN t.pc = "done" /\ t.bot.fail =>
         /\ t.resp.success /\ t.resp.text = "botResponse"
         /\ convs[t.id].state = t.state0

\* a handler between the read of its conversation and its last write
emAndamento(t) == t.pc \notin {"idle", "done"}

\* C18: turns are serialised per telefone: no two handlers are at the same
\* time inside a turn of the same telefone
C18_UmTurnoPorTelefone ==
  \A w1, w2 \in Workers :
    w1 # w2 /\ emAndamento(turn[w1]) /\ emAndamento(turn[w2])
      => turn[w1].phone # turn[w2].phone

emUso(p) ==
  /\ Latest(p) # 0
  /\ convs[Latest(p)].state # 7
  /\ agora - convs[Latest(p)].inicio <= TresHoras

\* a turn of handler w begins in this step
comeca(w) == turn[w].pc = "idle" /\ turn'[w].pc # "idle"

\* the turn runs on a row created in this step, at state 0
usaNova(w) ==
  /\ turn'[w].id > Len(convs)
  /\ turn'[w].id <= Len(convs')
  /\ convs'[turn'[w].id].telefone = turn'[w].phone
  /\ convs'[turn'[w].id].inicio = agora
  /\ turn'[w].state0 = 0

\* every row of the collection is still there after the step
linhasMantidas ==
  /\ Len(convs') >= Len(convs)
  /\ \A i \in 1..Len(convs) :
       convs'[i].telefone = convs[i].telefone /\ convs'[i].inicio = convs[i].inicio

\* C20: every turn starts on the most recent conversation of its telefone,
\* unless there is none, it is in state 7 or it started more than 3 hours
\* ago; then a new conversation at state 0 is created; no step deletes a row
C20_ConversaDoTurno ==
  [][/\ linhasMantidas
     /\ \A w \in Workers :
          comeca(w) =>
            IF emUso(turn'[w].phone) THEN turn'[w].id = Latest(turn'[w].phone)
            ELSE usaNova(w)]_vars

\* C20, with the reset command: a turn whose message is a reset command
\* starts on a new conversation as well, also when the most recent one is
\* still in use
C20_ConversaDoTurnoSalvoReinicio ==
  [][/\ linhasMantidas
     /\ \A w \in Workers :
          comeca(w) =>
            IF emUso(turn'[w].phone) /\ ~isResetRequest(turn'[w].msg)
            THEN turn'[w].id = Latest(turn'[w].phone)
            ELSE usaNova(w)]_vars

\* a turn runs on a second conversation of the telefone, created because the
\* first one had started more than three hours before, and the first one is
\* still in the collection
C20_Witness ==
  /\ Len(convs) = 2
  /\ turn[1].pc # "idle" /\ turn[1].id = 2 /\ ~isResetRequest(turn[1].msg)
  /\ convs[1].telefone = "p1" /\ convs[1].state # 7
  /\ convs[2].inicio - convs[1].inicio > TresHoras

\* the output of the model has no block at all
semBloco(b) ==
  /\ ~b.fail /\ ~b.text /\ ~b.voice /\ b.image = "none" /\ b.json = NoJson /\ ~b.conf

\* processTaggedResponse of handler w runs in this step
processa(w) == turn[w].pc = "tagged" /\ turn'[w].pc # "tagged"

\* C21: an output of the model without any block is treated as one TEXT
\* block holding the whole text, and the turn answers with it, successfully
C21_SemBlocoViraTexto ==
  [][\A w \in Workers :
       processa(w) /\ semBloco(turn[w].bot) =>
         /\ turn[w].bot.wrapped
         /\ turn'[w].pc = "done"
         /\ turn'[w].resp.success
         /\ turn'[w].resp.text = "botResponse"
         /\ turn'[w].resp.image = "none" /\ ~turn'[w].resp.audio]_vars

\* a turn answered with an output that had no block
C21_Witness ==
  \E w \in Workers :
    /\ turn[w].pc = "done" /\ semBloco(turn[w].bot) /\ turn[w].bot.wrapped
    /\ turn[w].resp.success /\ turn[w].resp.text = "botResponse"

\* processTaggedResponse is given an output with a VOICE block for a
\* conversation in state 6 or 7
vozNoResumo(w) ==
  processa(w) /\ turn[w].bot.voice /\ turn[w].doc.state \in {6, 7}

\* C22: in states 6 and 7 a VOICE block produces no audio, and when the
\* output has no TEXT block the voice text is the reply, as TEXT
C22_VozSuprimida ==
  [][\A w \in Workers :
       vozNoResumo(w) =>
         /\ ~turn'[w].resp.audio
         /\ ~textMatch(turn[w].bot) => turn'[w].resp.text = "voiceText"]_vars

\* C22, for the outputs in which no other block sets the reply: the image
\* of a menu item, an order in a JSON block and a CONFIRMATION block each
\* replace the text of the response
C22_VozSuprimidaSemOutroBloco ==
  [][\A w \in Workers :
       vozNoResumo(w) =>
         /\ ~turn'[w].resp.audio
         /\ (/\ ~textMatch(turn[w].bot)
             /\ turn[w].bot.image \notin {"found", "meio"}
             /\ turn[w].bot.json = NoJson
             /\ ~turn[w].bot.conf) => turn'[w].resp.text = "voiceText"]_vars

\* a turn in state 6 answered with the text of the VOICE block of an output
\* without TEXT block, and without audio
C22_Witness ==
  /\ turn[1].pc = "done" /\ turn[1].bot.voice /\ ~turn[1].bot.text
  /\ convs[turn[1].id].state = 6
  /\ turn[1].resp.text = "voiceText" /\ ~turn[1].resp.audio

\* C23: an IMAGE block whose identifier is not on the menu (here in an output
\* with no other block) ends the turn with success and with the text that
\* says no image was found
C23_ImagemNaoEncontrada ==
  [][\A w \in Workers :
       (/\ processa(w)
        /\ turn[w].bot.image = "missing"
        /\ ~textMatch(turn[w].bot) /\ ~turn[w].bot.voice
        /\ turn[w].bot.json = NoJson /\ ~turn[w].bot.conf)
       => /\ turn'[w].pc = "done"
          /\ turn'[w].resp.success
          /\ turn'[w].resp.text = "imagemNaoEncontrada"]_vars

\* C24: every turn ends with a response that carries a reply: its text is
\* never missing, undefined or empty
C24_SempreResponde ==
  \A w \in Workers :
    turn[w].pc = "done" => turn[w].resp.text \notin {"none", "undefined", ""}

RECURSIVE PrecoVezesQuantidade(_)
\* the sum over the items of price times quantity
PrecoVezesQuantidade(items) ==
  IF items = <<>> THEN 0
  ELSE Head(items).preco * Head(items).quantidade + PrecoVezesQuantidade(Tail(items))

\* C25: the total of every persisted order is the sum over its items of
\* price times quantity
C25_TotalCalculado ==
  \A k \in 1..Len(pedidos) :
    pedidos[k].valorTotal = PrecoVezesQuantidade(pedidos[k].itens)

\* C26: a message whose kind is neither text nor audio is answered with the
\* unsupported-media reply and never reaches the language model
C26_MidiaNaoSuportada ==
  \A w \in Workers :
    turn[w].mtype # "text" =>
      /\ turn[w].pc = "done"
      /\ turn[w].resp.text = "midiaNaoSuportada"
      /\ turn[w].bot = NoBot

\* C27: also when messages of one telefone are handled at the same time, no
\* two Pedido rows come from the same conversation
C27_UmPedidoMesmoConcorrente ==
  \A j, k \in 1..Len(pedidos) : pedidos[j].conv = pedidos[k].conv => j = k

\* C28: once no handler is running, every Pedido in storage belongs to a
\* conversation whose stored pedidoId refers to it and whose stored state is 7
C28_PedidoEConversaJuntos ==
  (\A w \in Workers : turn[w].pc = "idle") =>
    \A k \in 1..Len(pedidos) :
      /\ convs[pedidos[k].conv].pedidoId = k
      /\ convs[pedidos[k].conv].state = 7

\* C29: a turn that persists a Pedido found its conversation in state 6
C29_PedidoSoDoEstado6 ==
  \A w \in Workers : turn[w].made # 0 => turn[w].state0 = 6

\* C30: an order staged on a stored conversation has at least one item, an
\* address with a digit in it and a payment method
C30_EncenadoValido ==
  \A i \in Rows :
    convs[i].pedidoData # NoPedido =>
      /\ convs[i].pedidoData.arr /\ convs[i].pedidoData.items # <<>>
      /\ HasDigit(convs[i].pedidoData.endereco)
      /\ convs[i].pedidoData.pagamento # ""

\* C31: in state 5 a message after the first one that names pix, dinheiro or
\* VR goes to the language model and the conversation is saved in state 6
C31_SaiDoEstado5 ==
  [][\A w \in Workers :
       /\ (/\ comeca(w)
           /\ DepoisDaPrimeiraNoEstado5(turn'[w])
           /\ Includes(turn'[w].msg, {"pix", "dinheiro", "vr"}))
          => turn'[w].pc = "llm"
       /\ (/\ turn[w].pc = "llm" /\ turn'[w].pc # "llm"
           /\ DepoisDaPrimeiraNoEstado5(turn[w])
           /\ Includes(turn[w].msg, {"pix", "dinheiro", "vr"}))
          => convs'[turn[w].id].state = 6]_vars

\* the first part of a turn of the text message m at the entry point of this
\* state, the external services answering the same to both: what is stored
\* as state, how many Pedido rows exist, and whether the turn answered by
\* itself (and with success) or goes on to the language model
decisaoDe(m) ==
  LET g == getOrCreateConversation("p1", m)
      t0 == StartTurn("p1", m, "text", g)
      ext == [cep |-> FALSE, cep2 |-> FALSE, addr |-> TRUE]
      o == IF impl = "bot" THEN botInicio(t0, g.cs, ext) ELSE apiInicio(t0, g.cs, ext)
  IN [state |-> IF o.t.pc = "done" THEN o.cs[o.t.id].state ELSE o.t.doc.state,
      pedidos |-> Len(o.ps),
      reply |-> IF o.t.pc = "done" THEN <<"done", o.t.resp.success>> ELSE <<o.t.pc, TRUE>>]

\* C32: on the same stored conversation and the same inbound message,
\* processMessageInternally and POST /api/message decide the same next
\* state, the same commit of a Pedido and the same kind of reply
C32_MesmaDecisao ==
  [][impl' # impl => \A m \in PagamentoMsgs : decisaoDe(m) = decisaoDe(m)']_vars

\* C33: when a turn has answered, the state field of its response, if it has
\* one, is the state stored for the conversation of the turn
C33_EstadoDaResposta ==
  \A w \in Workers :
    turn[w].pc = "done" /\ turn[w].id # 0 /\ turn[w].resp.state # NoState
      => turn[w].resp.state = convs[turn[w].id].state

\* C34: a reset command adds exactly one Conversation row and changes none of
\* the rows that existed before it
C34_ResetCriaUmaLinha ==
  [][\A w \in Workers :
       comeca(w) /\ isResetRequest(turn'[w].msg)
         => /\ Len(convs') = Len(convs) + 1
            /\ \A i \in Rows : convs'[i] = convs[i]]_vars

comSufixo(c) ==
  c \in {"Pizza meio A e meio B (visualização parcial)",
         "Pizza meio A e meio B (visualização aproximada)"}

\* C36: for a composite identifier "A+B", an image that is not the overlay of
\* the two halves is captioned with the "(visualização aproximada)" or
\* "(visualização parcial)" suffix
C36_LegendaDoMeioAMeio ==
  [][\A w \in Workers :
       (/\ processa(w) /\ turn[w].bot.image = "meio"
        /\ turn'[w].resp.image \notin {"none", "sobreposicao"})
       => comSufixo(turn'[w].resp.imageCaption)]_vars

\* C37: after the first image is resolved, an output with a TEXT block (and
\* no JSON or CONFIRMATION block, which replace the text) gets a question
\* appended exactly when the state is between 0 and 3 and the body of the
\* TEXT block does not end with a question mark
C37_PerguntaAcrescentada ==
  [][\A w \in Workers :
       (/\ processa(w) /\ turn[w].bot.text
        /\ turn'[w].resp.image \in {"imagemGeral", "sobreposicao", "imagemDireita",
                                     "imagemEsquerda"}
        /\ turn[w].bot.pergunta # "noFim"
        /\ turn[w].bot.json = NoJson /\ ~turn[w].bot.conf)
       => (turn'[w].resp.text = "botResponse pergunta"
             <=> turn[w].doc.state \in 0..3 /\ turn[w].bot.pergunta # "noTexto")]_vars

\* C38: a lookup that throws for the IMAGE block leaves the turn to end with
\* success, the order of a JSON block is still staged, and an output that has
\* no other block is answered with an apology
C38_ErroNaImagem ==
  [][\A w \in Workers :
       processa(w) /\ turn[w].bot.image = "erro"
       => /\ turn'[w].pc \in {"done", "pedidoCriado"}
          /\ camposPresentes(pedidoDoJson(turn[w].bot.json))
               => tempPedidoData'[turn[w].phone] = pedidoDoJson(turn[w].bot.json)
          /\ (/\ ~textMatch(turn[w].bot) /\ ~turn[w].bot.voice
              /\ turn[w].bot.json = NoJson /\ ~turn[w].bot.conf)
             => /\ turn'[w].pc = "done" /\ turn'[w].resp.success
                /\ turn'[w].resp.text = "erroNaImagem"]_vars

\* getCachedData is called in this step
chama == cacheEnv'.chamadas = cacheEnv.chamadas + 1

\* the cache holds none of its values yet, or lacks one of them
cacheVazio ==
  0 \in {dataCache.botConfig, dataCache.historia, dataCache.formasPagamento,
         dataCache.cardapioItems}

\* C39: a call reads the store exactly when the cache is empty or its last
\* refresh is more than 5 minutes old; a call within 5 minutes of a completed
\* refresh reads nothing, leaves the cache as it is and returns its values
C39_CacheDeCincoMinutos ==
  [][chama =>
       /\ cacheEnv'.leu <=> (cacheVazio \/ cacheEnv.now - dataCache.lastUpdated > 5)
       /\ (cacheEnv.completo >= 0 /\ cacheEnv.now - cacheEnv.completo <= 5)
          => /\ ~cacheEnv'.leu
             /\ dataCache' = dataCache
             /\ cacheEnv'.retorno = Retorno(dataCache)]_vars

\* a call five minutes after a completed refresh, answered from the cache
\* although the store has changed since
C39_Witness ==
  /\ cacheEnv.chamadas >= 2 /\ ~cacheEnv.leu
  /\ cacheEnv.now - cacheEnv.completo = 5
  /\ cacheEnv.retorno = Retorno(dataCache)
  /\ cacheEnv.store # dataCache.botConfig

====
